---- MODULE Spec2Model ----
(***************************************************************************)
(* Model of phira's client data-access layer (src/phira/src/client/model.rs)*)
(*                                                                         *)
(*   Spec       the object-cache registry CACHES, the per-type LRU caches  *)
(*              and concurrent Ptr::load() / Ptr::fetch() calls            *)
(*   SpecLru    one task filling a per-type cache past its capacity        *)
(*   SpecLevel  LevelType decoding                                         *)
(*   SpecPtr    Ptr construction, cloning and (de)serialization            *)
(*   SpecTypes  SpecLru, with a second task and a second entity type       *)
(*   SpecMismatch  load() calls on two types that share a partition key    *)
(*   SpecLive   concurrent load() calls under a fair scheduler             *)
(*   SpecPos    MusicPosition decoding and encoding                        *)
(*   SpecRound  MusicPosition encoding, then decoding                      *)
(*   SpecFile   the requests PZFile makes for a URL                         *)
(***************************************************************************)
EXTENDS Integers, Sequences, FiniteSets, TLC

VARIABLES
    \* ---- registry and caches (Spec, SpecLru)
    CACHES,         \* partition key -> handle of its cache (0: no entry yet)
    heap,           \* the allocated caches: handle -> [ty, lru, owner, poisoned]
    registryOwner,  \* the task holding CACHES' mutex (0: free)
    pc,             \* task -> position in its call
    op,             \* task -> "load" or "fetch" (the method called on the Ptr)
    ptr,            \* task -> the Ptr<T> the method is called on
    map,            \* task -> the Arc handle obtain_map_cache returned (0: none)
    seen,           \* task -> what the cache held for ptr.id when load() looked
    fetched,        \* task -> what Client::fetch returned to Ptr::fetch
    result,         \* task -> what the call returned
    fetchCalls,     \* task -> Client::fetch invocations made by the current call
    netCalls,       \* Client::fetch invocations made so far by all tasks
    accessLog,      \* key -> the ids put or found, in order of their last access
    evicted,        \* key -> [count, ids]: the entries that left the key's cache
    \* ---- value types (SpecPos, SpecLevel, SpecPtr)
    overflowChecks, \* the build profile: TRUE debug (overflow panics), FALSE release
    posIn,          \* the text handed to MusicPosition::try_from
    posOut,         \* its outcome
    posText,        \* String::from(MusicPosition) of a decoded value
    posBack,        \* the outcome of MusicPosition::try_from of that text
    lvIn,           \* the byte handed to LevelType::try_from
    lvOut,          \* its outcome
    pA,             \* a Ptr<T>
    pB,             \* a second Ptr<T> (new, cloned or deserialized)
    wire,           \* a serde data-model token
    pStep,          \* the last Ptr operation applied
    \* ---- PZFile (SpecFile)
    fileUrl,        \* PZFile::url
    thumbW,         \* images::THUMBNAIL_WIDTH of the build
    thumbH,         \* images::THUMBNAIL_HEIGHT of the build
    fOp,            \* the PZFile method called last
    requested       \* the request it handed to CACHE_CLIENT

vars == <<CACHES, heap, registryOwner, pc, op, ptr, map, seen, fetched, result,
          fetchCalls, netCalls, accessLog, evicted, overflowChecks, posIn, posOut, posText,
          posBack,
          lvIn, lvOut, pA, pB, wire, pStep, fileUrl, thumbW, thumbH, fOp, requested>>

cacheVars == <<CACHES, heap, registryOwner, pc, op, ptr, map, seen, fetched,
               result, fetchCalls, netCalls, accessLog, evicted>>
posVars   == <<overflowChecks, posIn, posOut, posText, posBack>>
lvVars    == <<lvIn, lvOut>>
ptrVars   == <<pA, pB, wire, pStep>>
fileVars  == <<fileUrl, thumbW, thumbH, fOp, requested>>
valueVars == <<posVars, lvVars, ptrVars, fileVars>>

-----------------------------------------------------------------------------
(* Bounds of the model *)

NumTasks == 2       \* concurrent tasks
MaxId    == 1       \* identifiers 1..MaxId are used by the concurrent tasks

Tasks == 1..NumTasks
Ids   == 1..MaxId

-----------------------------------------------------------------------------
(* PZObject: the entity types and their partition keys.  "Chart" and "User" *)
(* are the entity kinds of the client; "Mirror" stands for a second type   *)
(* declared with the partition key of "Chart".                             *)

Types == {"Chart", "User", "Mirror"}

QUERY_PATH(T) ==
    CASE T = "Chart"  -> "chart"
      [] T = "User"   -> "user"
      [] T = "Mirror" -> "chart"

Keys == {QUERY_PATH(T) : T \in Types}

\* the types whose Ptr is also fetched directly, without load()
FetchTypes == {"Chart"}

\* ObjectMap::<T>::new(64.try_into().unwrap())
Capacity == 64

-----------------------------------------------------------------------------
(* lru::LruCache<i32, Arc<T>>: a sequence of [id, inst], most recently     *)
(* used first.  inst is the identity of the Arc<T> allocation.             *)

Index(m, id) ==
    IF \E i \in 1..Len(m) : m[i].id = id
    THEN CHOOSE i \in 1..Len(m) : m[i].id = id
    ELSE 0

Without(m, i) == [j \in 1..(Len(m) - 1) |-> IF j < i THEN m[j] ELSE m[j + 1]]

\* a get that never finds the key
LruGetAbsent(m, id) == [found |-> FALSE, value |-> 0, lru |-> m]

\* a get that leaves the recency order alone, as LruCache::peek does
LruGetNoPromote(m, id) ==
    LET i == Index(m, id) IN
    IF i = 0 THEN [found |-> FALSE, value |-> 0, lru |-> m]
    ELSE [found |-> TRUE, value |-> m[i].inst, lru |-> m]

\* a get that puts the entry it found in front and leaves the old one
LruGetDuplicate(m, id) ==
    LET i == Index(m, id) IN
    IF i = 0 THEN [found |-> FALSE, value |-> 0, lru |-> m]
    ELSE [found |-> TRUE, value |-> m[i].inst, lru |-> <<m[i]>> \o m]

\* LruCache::get(&mut self, k): a hit moves the entry to most-recently-used
LruGet(m, id) ==
    LET i == Index(m, id) IN
    IF i = 0 THEN [found |-> FALSE, value |-> 0, lru |-> m]
    ELSE [found |-> TRUE, value |-> m[i].inst, lru |-> <<m[i]>> \o Without(m, i)]

\* LruCache::put(&mut self, k, v): replaces the value of a present key, else
\* inserts, evicting the least recently used entry of a full cache
LruPut(m, id, inst) ==
    LET i == Index(m, id)
        e == [id |-> id, inst |-> inst] IN
    IF i # 0 THEN <<e>> \o Without(m, i)
    ELSE IF Len(m) >= Capacity THEN <<e>> \o Without(m, Len(m))
    ELSE <<e>> \o m

-----------------------------------------------------------------------------
(* CACHES and obtain_map_cache                                             *)

NewCache(T) == [ty |-> T, lru |-> <<>>, owner |-> 0, poisoned |-> FALSE]

\* caches.insert(T::QUERY_PATH, Arc::new(..)): a new cache on every call
EntryInsert(caches, hp, T) ==
    [caches |-> [caches EXCEPT ![QUERY_PATH(T)] = Len(hp) + 1],
     heap   |-> Append(hp, NewCache(T)),
     handle |-> Len(hp) + 1]

\* Arc::clone(caches.entry(T::QUERY_PATH).or_insert_with(|| Arc::new(..)))
EntryOrInsert(caches, hp, T) ==
    IF caches[QUERY_PATH(T)] # 0
    THEN [caches |-> caches, heap |-> hp, handle |-> caches[QUERY_PATH(T)]]
    ELSE [caches |-> [caches EXCEPT ![QUERY_PATH(T)] = Len(hp) + 1],
          heap   |-> Append(hp, NewCache(T)),
          handle |-> Len(hp) + 1]

-----------------------------------------------------------------------------
(* Results and task-local values                                           *)

NoPtr     == [ty |-> "none", id |-> 0]
NoResult  == [kind |-> "none", inst |-> 0]
Ok(inst)  == [kind |-> "ok", inst |-> inst]
\* the failure of the n-th call of Client::fetch
Err(n)    == [kind |-> "err", inst |-> n]
\* a panic, and the expression that raised it
Panic(at) == [kind |-> "panic", inst |-> 0, at |-> at]
NotLooked == -1

\* Ptr::new(id) for Ptr<T>: the identifier and the PhantomData<T> marker
PtrNew(T, id) == [ty |-> T, id |-> id]

\* what the cache holds for an id (LruCache::peek): the instance, 0 if absent
Peek(m, id) ==
    IF \E i \in 1..Len(m) : m[i].id = id
    THEN (CHOOSE e \in {m[i] : i \in 1..Len(m)} : e.id = id).inst
    ELSE 0

IdsOf(m) == {m[i].id : i \in 1..Len(m)}

\* the record of evictions with the ids of gone added
Left(ev, gone) == [count |-> ev.count + Cardinality(gone), ids |-> ev.ids \cup gone]

\* the access log with id moved to its end
Touch(log, id) == SelectSeq(log, LAMBDA x : x # id) \o <<id>>

-----------------------------------------------------------------------------
(* Ptr::load and Ptr::fetch, one action per step of a task                 *)

\* ptr.load() is called
CallLoad(t, T, id) ==
    /\ pc[t] = "idle"
    /\ pc' = [pc EXCEPT ![t] = "obtain"]
    /\ op' = [op EXCEPT ![t] = "load"]
    /\ ptr' = [ptr EXCEPT ![t] = PtrNew(T, id)]
    /\ seen' = [seen EXCEPT ![t] = NotLooked]
    /\ fetched' = [fetched EXCEPT ![t] = NoResult]
    /\ result' = [result EXCEPT ![t] = NoResult]
    /\ fetchCalls' = [fetchCalls EXCEPT ![t] = 0]
    /\ UNCHANGED <<valueVars, CACHES, heap, registryOwner, map, netCalls, accessLog, evicted>>

\* a fetch() that looks into the cache first, as load() does
CallFetchViaCache(t, T, id) ==
    /\ pc[t] = "idle"
    /\ pc' = [pc EXCEPT ![t] = "obtain"]
    /\ op' = [op EXCEPT ![t] = "fetch"]
    /\ ptr' = [ptr EXCEPT ![t] = PtrNew(T, id)]
    /\ seen' = [seen EXCEPT ![t] = NotLooked]
    /\ fetched' = [fetched EXCEPT ![t] = NoResult]
    /\ result' = [result EXCEPT ![t] = NoResult]
    /\ fetchCalls' = [fetchCalls EXCEPT ![t] = 0]
    /\ UNCHANGED <<valueVars, CACHES, heap, registryOwner, map, netCalls, accessLog, evicted>>

\* ptr.fetch() is called directly
CallFetch(t, T, id) ==
    /\ pc[t] = "idle"
    /\ pc' = [pc EXCEPT ![t] = "fetch"]
    /\ op' = [op EXCEPT ![t] = "fetch"]
    /\ ptr' = [ptr EXCEPT ![t] = PtrNew(T, id)]
    /\ seen' = [seen EXCEPT ![t] = NotLooked]
    /\ fetched' = [fetched EXCEPT ![t] = NoResult]
    /\ result' = [result EXCEPT ![t] = NoResult]
    /\ fetchCalls' = [fetchCalls EXCEPT ![t] = 0]
    /\ UNCHANGED <<valueVars, CACHES, heap, registryOwner, map, netCalls, accessLog, evicted>>

\* obtain_map_cache: CACHES.lock().unwrap()
ObtainLock(t) ==
    /\ pc[t] = "obtain"
    /\ registryOwner = 0
    /\ registryOwner' = t
    /\ pc' = [pc EXCEPT ![t] = "entry"]
    /\ UNCHANGED <<valueVars, CACHES, heap, op, ptr, map, seen, fetched, result,
                   fetchCalls, netCalls, accessLog, evicted>>

\* an obtain_map_cache that returns with the registry guard still alive
ObtainEntryKeepGuard(t) ==
    /\ pc[t] = "entry"
    /\ registryOwner = t
    /\ LET r == EntryOrInsert(CACHES, heap, ptr[t].ty) IN
        /\ CACHES' = r.caches
        /\ heap' = r.heap
        /\ map' = [map EXCEPT ![t] = r.handle]
    /\ pc' = [pc EXCEPT ![t] = "lock"]
    /\ UNCHANGED <<valueVars, registryOwner, op, ptr, seen, fetched, result, fetchCalls,
                   netCalls, accessLog, evicted>>

\* obtain_map_cache: the entry is looked up or inserted, its Arc cloned, and
\* the registry guard dropped on return
ObtainEntry(t) ==
    /\ pc[t] = "entry"
    /\ registryOwner = t
    /\ LET r == EntryOrInsert(CACHES, heap, ptr[t].ty) IN
        /\ CACHES' = r.caches
        /\ heap' = r.heap
        /\ map' = [map EXCEPT ![t] = r.handle]
    /\ registryOwner' = 0
    /\ pc' = [pc EXCEPT ![t] = "lock"]
    /\ UNCHANGED <<valueVars, op, ptr, seen, fetched, result, fetchCalls, netCalls,
                   accessLog, evicted>>

\* map.lock().unwrap(): a poisoned mutex makes unwrap() panic
LockCache(t) ==
    /\ pc[t] = "lock"
    /\ heap[map[t]].owner = 0
    /\ IF heap[map[t]].poisoned
       THEN /\ pc' = [pc EXCEPT ![t] = "panicked"]
            /\ result' = [result EXCEPT ![t] = Panic("lock().unwrap()")]
            /\ map' = [map EXCEPT ![t] = 0]
            /\ heap' = heap
       ELSE /\ pc' = [pc EXCEPT ![t] = "check"]
            /\ heap' = [heap EXCEPT ![map[t]].owner = t]
            /\ UNCHANGED <<valueVars, result, map>>
    /\ UNCHANGED <<valueVars, CACHES, registryOwner, op, ptr, seen, fetched, fetchCalls,
                   netCalls, accessLog, evicted>>

\* a failed downcast that gives the lock back and goes on to fetch
DowncastFallThrough(t) ==
    /\ pc[t] = "check"
    /\ heap[map[t]].ty # ptr[t].ty
    /\ heap' = [heap EXCEPT ![map[t]].owner = 0]
    /\ map' = [map EXCEPT ![t] = 0]
    /\ pc' = [pc EXCEPT ![t] = "fetch"]
    /\ UNCHANGED <<valueVars, CACHES, registryOwner, op, ptr, seen, fetched, result,
                   fetchCalls, netCalls, accessLog, evicted>>

\* guard.downcast_mut::<ObjectMap<T>>() is None: unreachable!() panics, and
\* the guard dropped by the unwinding poisons the mutex
DowncastFail(t) ==
    /\ pc[t] = "check"
    /\ heap[map[t]].ty # ptr[t].ty
    /\ heap' = [heap EXCEPT ![map[t]].owner = 0, ![map[t]].poisoned = TRUE]
    /\ map' = [map EXCEPT ![t] = 0]
    /\ pc' = [pc EXCEPT ![t] = "panicked"]
    /\ result' = [result EXCEPT ![t] = Panic("unreachable!()")]
    /\ UNCHANGED <<valueVars, CACHES, registryOwner, op, ptr, seen, fetched, fetchCalls,
                   netCalls, accessLog, evicted>>

\* a hit that returns with the guard still alive
GetHitKeepGuard(t) ==
    /\ pc[t] = "check"
    /\ heap[map[t]].ty = ptr[t].ty
    /\ LET g == LruGet(heap[map[t]].lru, ptr[t].id) IN
        /\ g.found
        /\ heap' = [heap EXCEPT ![map[t]].lru = g.lru]
        /\ result' = [result EXCEPT ![t] = Ok(g.value)]
    /\ seen' = [seen EXCEPT ![t] = Peek(heap[map[t]].lru, ptr[t].id)]
    /\ accessLog' = [accessLog EXCEPT ![QUERY_PATH(ptr[t].ty)] = Touch(@, ptr[t].id)]
    /\ pc' = [pc EXCEPT ![t] = "done"]
    /\ UNCHANGED <<valueVars, CACHES, registryOwner, op, ptr, map, fetched, fetchCalls,
                   netCalls, evicted>>

\* actual_map.get(&self.id) is Some(value): return Ok(Arc::clone(value))
GetHit(t) ==
    /\ pc[t] = "check"
    /\ heap[map[t]].ty = ptr[t].ty
    /\ LET g == LruGet(heap[map[t]].lru, ptr[t].id) IN
        /\ g.found
        /\ heap' = [heap EXCEPT ![map[t]].lru = g.lru, ![map[t]].owner = 0]
        /\ result' = [result EXCEPT ![t] = Ok(g.value)]
    /\ seen' = [seen EXCEPT ![t] = Peek(heap[map[t]].lru, ptr[t].id)]
    /\ accessLog' = [accessLog EXCEPT ![QUERY_PATH(ptr[t].ty)] = Touch(@, ptr[t].id)]
    /\ map' = [map EXCEPT ![t] = 0]
    /\ pc' = [pc EXCEPT ![t] = "done"]
    /\ UNCHANGED <<valueVars, CACHES, registryOwner, op, ptr, fetched, fetchCalls,
                   netCalls, evicted>>

\* the same step with drop(guard) left out
GetMissKeepGuard(t) ==
    /\ pc[t] = "check"
    /\ heap[map[t]].ty = ptr[t].ty
    /\ ~LruGet(heap[map[t]].lru, ptr[t].id).found
    /\ seen' = [seen EXCEPT ![t] = Peek(heap[map[t]].lru, ptr[t].id)]
    /\ pc' = [pc EXCEPT ![t] = "fetch"]
    /\ UNCHANGED <<valueVars, CACHES, heap, map, registryOwner, op, ptr, fetched, result,
                   fetchCalls, netCalls, accessLog, evicted>>

\* a miss that waits while another load() of the same Ptr is fetching
GetMissSingleFlight(t) ==
    /\ pc[t] = "check"
    /\ heap[map[t]].ty = ptr[t].ty
    /\ ~LruGet(heap[map[t]].lru, ptr[t].id).found
    /\ \A u \in Tasks \ {t} : ~(ptr[u] = ptr[t] /\ pc[u] \in {"fetch", "net"})
    /\ heap' = [heap EXCEPT ![map[t]].owner = 0]
    /\ map' = [map EXCEPT ![t] = 0]
    /\ seen' = [seen EXCEPT ![t] = Peek(heap[map[t]].lru, ptr[t].id)]
    /\ pc' = [pc EXCEPT ![t] = "fetch"]
    /\ UNCHANGED <<valueVars, CACHES, registryOwner, op, ptr, fetched, result, fetchCalls,
                   netCalls, accessLog, evicted>>

\* actual_map.get(&self.id) is None: drop(guard); drop(map);
GetMiss(t) ==
    /\ pc[t] = "check"
    /\ heap[map[t]].ty = ptr[t].ty
    /\ ~LruGet(heap[map[t]].lru, ptr[t].id).found
    /\ heap' = [heap EXCEPT ![map[t]].owner = 0]
    /\ map' = [map EXCEPT ![t] = 0]
    /\ seen' = [seen EXCEPT ![t] = Peek(heap[map[t]].lru, ptr[t].id)]
    /\ pc' = [pc EXCEPT ![t] = "fetch"]
    /\ UNCHANGED <<valueVars, CACHES, registryOwner, op, ptr, fetched, result, fetchCalls,
                   netCalls, accessLog, evicted>>

\* Ptr::fetch: Client::fetch(self.id) is invoked and awaited
FetchCall(t) ==
    /\ pc[t] = "fetch"
    /\ fetchCalls' = [fetchCalls EXCEPT ![t] = @ + 1]
    /\ netCalls' = netCalls + 1
    /\ fetched' = [fetched EXCEPT ![t] = [kind |-> "pending", inst |-> netCalls + 1]]
    /\ pc' = [pc EXCEPT ![t] = "net"]
    /\ UNCHANGED <<valueVars, CACHES, heap, registryOwner, op, ptr, map, seen, result, accessLog, evicted>>

\* Client::fetch: the request fails
NetErr(t) ==
    /\ pc[t] = "net"
    /\ fetched' = [fetched EXCEPT ![t] = Err(fetched[t].inst)]
    /\ pc' = [pc EXCEPT ![t] = "fetched"]
    /\ UNCHANGED <<valueVars, CACHES, heap, registryOwner, op, ptr, map, seen, result,
                   fetchCalls, netCalls, accessLog, evicted>>

\* Client::fetch: the request succeeds and the fresh Arc<T> is put into the
\* type's cache, inside the registry's and the cache's own critical sections
Store(t) ==
    /\ pc[t] = "net"
    /\ registryOwner = 0
    /\ LET r == EntryOrInsert(CACHES, heap, ptr[t].ty)
           h == r.handle
           c == r.heap[h] IN
        /\ c.owner = 0
        /\ ~c.poisoned
        /\ c.ty = ptr[t].ty
        /\ CACHES' = r.caches
        /\ heap' = [r.heap EXCEPT ![h].lru = LruPut(c.lru, ptr[t].id, fetched[t].inst)]
        /\ evicted' = [evicted EXCEPT ![QUERY_PATH(ptr[t].ty)] =
                Left(@, IdsOf(c.lru) \ IdsOf(heap'[h].lru))]
    /\ accessLog' = [accessLog EXCEPT ![QUERY_PATH(ptr[t].ty)] = Touch(@, ptr[t].id)]
    /\ fetched' = [fetched EXCEPT ![t] = Ok(fetched[t].inst)]
    /\ pc' = [pc EXCEPT ![t] = "fetched"]
    /\ UNCHANGED <<valueVars, registryOwner, op, ptr, map, seen, result, fetchCalls,
                   netCalls>>

\* Client::fetch: the request succeeds, and the cache under the key is
\* poisoned or of another type
StorePanic(t) ==
    /\ pc[t] = "net"
    /\ registryOwner = 0
    /\ LET r == EntryOrInsert(CACHES, heap, ptr[t].ty)
           h == r.handle
           c == r.heap[h] IN
        /\ c.owner = 0
        /\ c.poisoned \/ c.ty # ptr[t].ty
        /\ CACHES' = r.caches
        /\ heap' = [r.heap EXCEPT ![h].poisoned = TRUE]
    /\ fetched' = [fetched EXCEPT ![t] = Panic("Client::fetch")]
    /\ result' = [result EXCEPT ![t] = Panic("Client::fetch")]
    /\ pc' = [pc EXCEPT ![t] = "panicked"]
    /\ UNCHANGED <<valueVars, registryOwner, op, ptr, map, seen, fetchCalls, netCalls, accessLog, evicted>>

\* a return that calls Client::fetch a second time after a failure
FetchReturnRetry(t) ==
    /\ pc[t] = "fetched"
    /\ IF fetched[t].kind = "err" /\ fetchCalls[t] < 2
       THEN pc' = [pc EXCEPT ![t] = "fetch"] /\ result' = result
       ELSE pc' = [pc EXCEPT ![t] = "done"]
            /\ result' = [result EXCEPT ![t] = fetched[t]]
    /\ UNCHANGED <<valueVars, CACHES, heap, registryOwner, op, ptr, map, seen, fetched,
                   fetchCalls, netCalls, accessLog, evicted>>

\* self.fetch().await is the value of load(); Client::fetch(..).await that
\* of fetch()
FetchReturn(t) ==
    /\ pc[t] = "fetched"
    /\ result' = [result EXCEPT ![t] = fetched[t]]
    /\ pc' = [pc EXCEPT ![t] = "done"]
    /\ UNCHANGED <<valueVars, CACHES, heap, registryOwner, op, ptr, map, seen, fetched,
                   fetchCalls, netCalls, accessLog, evicted>>

\* the caller takes the result; the task may make another call
Return(t) ==
    /\ pc[t] = "done"
    /\ pc' = [pc EXCEPT ![t] = "idle"]
    /\ UNCHANGED <<valueVars, CACHES, heap, registryOwner, op, ptr, map, seen, fetched,
                   result, fetchCalls, netCalls, accessLog, evicted>>

-----------------------------------------------------------------------------
(* Values of the variables a specification does not use                    *)

NoText == <<>>
NoPos  == [kind |-> "none"]

CacheIdle ==
    /\ CACHES = [k \in Keys |-> 0]
    /\ heap = <<>>
    /\ registryOwner = 0
    /\ pc = [t \in Tasks |-> "idle"]
    /\ op = [t \in Tasks |-> "none"]
    /\ ptr = [t \in Tasks |-> NoPtr]
    /\ map = [t \in Tasks |-> 0]
    /\ seen = [t \in Tasks |-> NotLooked]
    /\ fetched = [t \in Tasks |-> NoResult]
    /\ result = [t \in Tasks |-> NoResult]
    /\ fetchCalls = [t \in Tasks |-> 0]
    /\ netCalls = 0
    /\ accessLog = [k \in Keys |-> <<>>]
    /\ evicted = [k \in Keys |-> [count |-> 0, ids |-> {}]]

PosIdle ==
    /\ overflowChecks = FALSE
    /\ posIn = NoText
    /\ posOut = NoPos
    /\ posText = NoText
    /\ posBack = NoPos

LevelIdle ==
    /\ lvIn = 0
    /\ lvOut = NoPos

PtrIdle ==
    /\ pA = NoPtr
    /\ pB = NoPtr
    /\ wire = [tag |-> "none", v |-> 0]
    /\ pStep = "none"

NoRequest == [method |-> "none", url |-> <<>>]

FileIdle ==
    /\ fileUrl = NoText
    /\ thumbW = 0
    /\ thumbH = 0
    /\ fOp = "none"
    /\ requested = NoRequest

-----------------------------------------------------------------------------
(* Spec: concurrent tasks calling load() and fetch() on Ptr<T> values      *)

Init == CacheIdle /\ PosIdle /\ LevelIdle /\ PtrIdle /\ FileIdle

\* tasks are numbered in the order in which their calls start
IsNextTask(t) == \A u \in Tasks : u < t => pc[u] # "idle"

Next ==
    \/ \E t \in Tasks, T \in Types, id \in Ids :
            IsNextTask(t) /\ CallLoad(t, T, id)
    \/ \E t \in Tasks, T \in FetchTypes, id \in Ids :
            IsNextTask(t) /\ CallFetch(t, T, id)
    \/ \E t \in Tasks : ObtainLock(t)
    \/ \E t \in Tasks : ObtainEntry(t)
    \/ \E t \in Tasks : LockCache(t)
    \/ \E t \in Tasks : DowncastFail(t)
    \/ \E t \in Tasks : GetHit(t)
    \/ \E t \in Tasks : GetMiss(t)
    \/ \E t \in Tasks : FetchCall(t)
    \/ \E t \in Tasks : NetErr(t)
    \/ \E t \in Tasks : Store(t)
    \/ \E t \in Tasks : StorePanic(t)
    \/ \E t \in Tasks : FetchReturn(t)

Spec == Init /\ [][Next]_vars

-----------------------------------------------------------------------------
(* SpecLru: one task resolves Ptr<Chart> values one after the other: the   *)
(* new identifiers 1, 2, .. until the cache is full, then again, in any    *)
(* order and any number of times, some of the oldest ones, and then one    *)
(* more new identifier.                                                    *)

MaxLookupId == 2    \* identifiers 1..MaxLookupId are the ones loaded again

Inserted == Len(accessLog["chart"])

LruIds == {Inserted + 1} \cup {i \in 1..MaxLookupId : Inserted = Capacity}

NextLru ==
    \/ \E id \in LruIds : Inserted <= Capacity /\ CallLoad(1, "Chart", id)
    \/ ObtainLock(1)
    \/ ObtainEntry(1)
    \/ LockCache(1)
    \/ GetHit(1)
    \/ GetMiss(1)
    \/ FetchCall(1)
    \/ Store(1)
    \/ FetchReturn(1)
    \/ Return(1)

SpecLru == Init /\ [][NextLru]_vars

-----------------------------------------------------------------------------
(* SpecTypes: as SpecLru, and once the cache of Chart is full a second     *)
(* task resolves Ptr<User> values, again and again, in any order           *)

LruTasks == {1, 2}

NextTypes ==
    \/ \E id \in LruIds : Inserted <= Capacity /\ CallLoad(1, "Chart", id)
    \/ \E id \in 1..MaxLookupId : Inserted >= Capacity /\ CallLoad(2, "User", id)
    \/ \E t \in LruTasks : ObtainLock(t)
    \/ \E t \in LruTasks : ObtainEntry(t)
    \/ \E t \in LruTasks : LockCache(t)
    \/ \E t \in LruTasks : GetHit(t)
    \/ \E t \in LruTasks : GetMiss(t)
    \/ \E t \in LruTasks : FetchCall(t)
    \/ \E t \in LruTasks : Store(t)
    \/ \E t \in LruTasks : FetchReturn(t)
    \/ \E t \in LruTasks : Return(t)

SpecTypes == Init /\ [][NextTypes]_vars

-----------------------------------------------------------------------------
(* SpecLive: concurrent load() calls on types that each have a partition   *)
(* key of their own, under a fair scheduler and a Client::fetch that       *)
(* returns                                                                 *)

OwnKeyTypes == Types \ {"Mirror"}

NextLive ==
    \/ \E t \in Tasks, T \in OwnKeyTypes :
            IsNextTask(t) /\ CallLoad(t, T, 1)
    \/ \E t \in Tasks : ObtainLock(t)
    \/ \E t \in Tasks : ObtainEntry(t)
    \/ \E t \in Tasks : LockCache(t)
    \/ \E t \in Tasks : GetHit(t)
    \/ \E t \in Tasks : GetMiss(t)
    \/ \E t \in Tasks : FetchCall(t)
    \/ \E t \in Tasks : NetErr(t)
    \/ \E t \in Tasks : Store(t)
    \/ \E t \in Tasks : FetchReturn(t)

\* the steps of the call of task t, once it is made
Step(t) ==
    \/ ObtainLock(t)
    \/ ObtainEntry(t)
    \/ LockCache(t)
    \/ GetHit(t)
    \/ GetMiss(t)
    \/ FetchCall(t)
    \/ NetErr(t)
    \/ Store(t)
    \/ FetchReturn(t)

\* a task that can go on does so in the end: the executor polls it, a
\* free mutex is handed to a thread that waits for it, and Client::fetch
\* returns
Fairness == \A t \in Tasks : WF_vars(Step(t))

SpecLive == Init /\ [][NextLive]_vars /\ Fairness

-----------------------------------------------------------------------------
(* SpecMismatch: tasks resolve Ptr<Chart> and Ptr<Mirror> values, two      *)
(* types with one partition key.  A task that panicked is gone; another    *)
(* one is started in its place.                                            *)

SharedKeyTypes == {T \in Types : QUERY_PATH(T) = "chart"}

\* the runtime drops the task that panicked and starts a new one
Respawn(t) ==
    /\ pc[t] = "panicked"
    /\ pc' = [pc EXCEPT ![t] = "idle"]
    /\ UNCHANGED <<valueVars, CACHES, heap, registryOwner, op, ptr, map, seen, fetched,
                   result, fetchCalls, netCalls, accessLog, evicted>>

NextMismatch ==
    \/ \E t \in Tasks, T \in SharedKeyTypes : CallLoad(t, T, 1)
    \/ \E t \in Tasks : ObtainLock(t)
    \/ \E t \in Tasks : ObtainEntry(t)
    \/ \E t \in Tasks : LockCache(t)
    \/ \E t \in Tasks : DowncastFail(t)
    \/ \E t \in Tasks : GetHit(t)
    \/ \E t \in Tasks : GetMiss(t)
    \/ \E t \in Tasks : FetchCall(t)
    \/ \E t \in Tasks : NetErr(t)
    \/ \E t \in Tasks : Store(t)
    \/ \E t \in Tasks : StorePanic(t)
    \/ \E t \in Tasks : FetchReturn(t)
    \/ \E t \in Tasks : Respawn(t)

SpecMismatch == Init /\ [][NextMismatch]_vars

-----------------------------------------------------------------------------
(* Texts are sequences of characters.  A u32 does not fit the integers of  *)
(* the model checker, so numbers are held in limbs of 16 bits:             *)
(* [c, hi, lo] is c * 2^32 + hi * 2^16 + lo, and a u32 has c = 0.          *)

MaxLen == 5         \* all texts over PosAlphabet up to this length are decoded

PosAlphabet == {"0", "7", ":", "+", "a"}

Digits == <<"0", "1", "2", "3", "4", "5", "6", "7", "8", "9">>

IsDigit(ch) == \E d \in 1..10 : Digits[d] = ch

DigitVal(ch) == (CHOOSE d \in 1..10 : Digits[d] = ch) - 1

Limb == 256 * 256

Zero == [c |-> 0, hi |-> 0, lo |-> 0]

Small(n) == [c |-> 0, hi |-> 0, lo |-> n]

U32Max == [c |-> 0, hi |-> Limb - 1, lo |-> Limb - 1]

\* x * k + y, exactly
MulAdd(x, k, y) ==
    LET l0 == x.lo * k + y.lo
        l1 == x.hi * k + y.hi + (l0 \div Limb)
        l2 == x.c * k + y.c + (l1 \div Limb)
    IN  [c |-> l2, hi |-> l1 % Limb, lo |-> l0 % Limb]

\* the quotient and the remainder of x by d
DivMod(x, d) ==
    LET c1 == (x.c % d) * Limb + x.hi
        c0 == (c1 % d) * Limb + x.lo
    IN  [q |-> [c |-> x.c \div d, hi |-> c1 \div d, lo |-> c0 \div d],
         r |-> c0 % d]

\* the value a u32 keeps of x: x modulo 2^32
Wrap(x) == [x EXCEPT !.c = 0]

RECURSIVE DecRec(_)
DecRec(x) ==
    IF x = Zero THEN <<>>
    ELSE DecRec(DivMod(x, 10).q) \o <<Digits[DivMod(x, 10).r + 1]>>

\* Display of an unsigned integer: its decimal digits
Dec(x) == IF x = Zero THEN <<"0">> ELSE DecRec(x)

\* {:02}: zero-padded to a width of at least two
Pad2(s) == IF Len(s) < 2 THEN <<"0">> \o s ELSE s

-----------------------------------------------------------------------------
(* MusicPosition                                                           *)

ParseFail == [ok |-> FALSE, v |-> Zero]

RECURSIVE ParseDigits(_, _)
ParseDigits(s, acc) ==
    IF s = <<>> THEN [ok |-> TRUE, v |-> acc]
    ELSE IF ~IsDigit(Head(s)) THEN ParseFail
    ELSE LET n == MulAdd(acc, 10, Small(DigitVal(Head(s)))) IN
         IF n.c # 0 THEN ParseFail ELSE ParseDigits(Tail(s), n)

\* str::parse::<u32>(): an optional "+", then one or more decimal digits
\* whose value fits a u32
ParseU32(s) ==
    LET body == IF s # <<>> /\ Head(s) = "+" THEN Tail(s) ELSE s IN
    IF body = <<>> THEN ParseFail ELSE ParseDigits(body, Zero)

FirstColon(s) ==
    IF \E i \in 1..Len(s) : s[i] = ":"
    THEN CHOOSE i \in 1..Len(s) : s[i] = ":" /\ \A j \in 1..(i - 1) : s[j] # ":"
    ELSE 0

\* str::splitn(n, ':'): at most n fields, the last one holding the rest
RECURSIVE Splitn(_, _)
Splitn(s, n) ==
    IF n <= 1 \/ FirstColon(s) = 0 THEN <<s>>
    ELSE <<SubSeq(s, 1, FirstColon(s) - 1)>>
         \o Splitn(SubSeq(s, FirstColon(s) + 1, Len(s)), n - 1)

PosNone  == [kind |-> "none", v |-> Zero]
PosPanic == [kind |-> "panic", v |-> Zero]
PosSome(v) == [kind |-> "some", v |-> v]

\* res = res * 60 + it.next()?.parse::<u32>().ok()?  --  the product is
\* evaluated before the next field is taken; an overflow panics in a build
\* with overflow checks and wraps in one without
NextField(res, it, i, checks) ==
    LET prod == MulAdd(res, 60, Zero) IN
    IF prod.c # 0 /\ checks THEN PosPanic
    ELSE IF Len(it) < i THEN PosNone
    ELSE IF ~ParseU32(it[i]).ok THEN PosNone
    ELSE LET sum == MulAdd(Wrap(prod), 1, ParseU32(it[i]).v) IN
         IF sum.c # 0 /\ checks THEN PosPanic ELSE PosSome(Wrap(sum))

\* the closure of try_from: Option<u32>
Seconds(value, checks) ==
    LET it == Splitn(value, 3)
        r0 == IF ParseU32(it[1]).ok THEN PosSome(ParseU32(it[1]).v) ELSE PosNone
        r1 == IF r0.kind = "some" THEN NextField(r0.v, it, 2, checks) ELSE r0
        r2 == IF r1.kind = "some" THEN NextField(r1.v, it, 3, checks) ELSE r1
    IN  r2

\* <MusicPosition as TryFrom<String>>::try_from
MusicPositionTryFrom(value, checks) ==
    LET r == Seconds(value, checks) IN
    CASE r.kind = "some"  -> [kind |-> "ok", seconds |-> r.v]
      [] r.kind = "none"  -> [kind |-> "err", msg |-> "illegal position"]
      [] r.kind = "panic" -> [kind |-> "panic"]

\* an encoder that writes two fields, "00:SS"
MusicPositionToStringShort(seconds) ==
    <<"0", "0", ":">> \o Pad2(Dec(seconds))

\* <String as From<MusicPosition>>::from: format!("00:00:{:02}", value.seconds)
MusicPositionToString(seconds) ==
    <<"0", "0", ":", "0", "0", ":">> \o Pad2(Dec(seconds))

-----------------------------------------------------------------------------
(* SpecPos: a text is decoded as a MusicPosition, and a decoded position   *)
(* encoded again                                                           *)

\* the numbers whose numerals make up the h:m:s texts: small ones, the
\* largest h, and the largest h * 60, that 32 bits hold, their successors,
\* the largest u32 and its successor
PosNumbers ==
    {Zero, Small(1), Small(59), Small(60),
     [c |-> 0, hi |-> 18, lo |-> 13398],     \* 1193046
     [c |-> 0, hi |-> 18, lo |-> 13399],     \* 1193047
     [c |-> 0, hi |-> 1092, lo |-> 17476],   \* 71582788
     [c |-> 0, hi |-> 1092, lo |-> 17477],   \* 71582789
     U32Max,
     [c |-> 1, hi |-> 0, lo |-> 0]}          \* 4294967296

Numerals == {Dec(x) : x \in PosNumbers}

ShortTexts == UNION {[1..n -> PosAlphabet] : n \in 0..MaxLen}

Triples == {a \o <<":">> \o b \o <<":">> \o d : a, b, d \in Numerals}

PosInputs == ShortTexts \cup Triples

InitPos ==
    /\ CacheIdle /\ LevelIdle /\ PtrIdle /\ FileIdle
    /\ overflowChecks \in BOOLEAN
    /\ posIn \in PosInputs
    /\ posOut = NoPos
    /\ posText = NoText
    /\ posBack = NoPos

\* serde hands the text to try_from
PosDecode ==
    /\ posOut = NoPos
    /\ posOut' = MusicPositionTryFrom(posIn, overflowChecks)
    /\ UNCHANGED <<cacheVars, fileVars, lvVars, ptrVars, overflowChecks, posIn, posText, posBack>>

\* serde turns the decoded position into its text again
PosEncode ==
    /\ posOut.kind = "ok"
    /\ posText = NoText
    /\ posText' = MusicPositionToString(posOut.seconds)
    /\ UNCHANGED <<cacheVars, fileVars, lvVars, ptrVars, overflowChecks, posIn, posOut, posBack>>

NextPos == PosDecode \/ PosEncode

SpecPos == InitPos /\ [][NextPos]_vars

-----------------------------------------------------------------------------
(* SpecRound: a MusicPosition is encoded, and the text decoded again       *)

MaxSeconds == 12    \* all low limbs 0..MaxSeconds are encoded, besides the marked ones

\* the seconds of the positions: the small numbers, those around a change
\* of the number of digits or of a limb, and the largest ones
SecondsValues ==
    {[c |-> 0, hi |-> h, lo |-> l] :
        h \in {0, 1, 18, 1092, Limb - 1},
        l \in (0..MaxSeconds) \cup {59, 60, 99, 100, 13398, 17476, Limb - 1}}

InitRound ==
    /\ CacheIdle /\ LevelIdle /\ PtrIdle /\ FileIdle
    /\ overflowChecks \in BOOLEAN
    /\ posIn = NoText
    /\ \E v \in SecondsValues : posOut = [kind |-> "ok", seconds |-> v]
    /\ posText = NoText
    /\ posBack = NoPos

\* serde hands the encoded text to try_from
PosRedecode ==
    /\ posText # NoText
    /\ posBack = NoPos
    /\ posBack' = MusicPositionTryFrom(posText, overflowChecks)
    /\ UNCHANGED <<cacheVars, fileVars, lvVars, ptrVars, overflowChecks, posIn, posOut, posText>>

NextRound == PosEncode \/ PosRedecode

SpecRound == InitRound /\ [][NextRound]_vars

-----------------------------------------------------------------------------
(* LevelType                                                               *)

\* a decoder that takes every byte above 3 for SP
LevelTypeTryFromLenient(value) ==
    CASE value = 0 -> [kind |-> "ok", variant |-> "EZ"]
      [] value = 1 -> [kind |-> "ok", variant |-> "HD"]
      [] value = 2 -> [kind |-> "ok", variant |-> "IN"]
      [] value = 3 -> [kind |-> "ok", variant |-> "AT"]
      [] OTHER     -> [kind |-> "ok", variant |-> "SP"]

\* <LevelType as TryFrom<u8>>::try_from
LevelTypeTryFrom(value) ==
    CASE value = 0 -> [kind |-> "ok", variant |-> "EZ"]
      [] value = 1 -> [kind |-> "ok", variant |-> "HD"]
      [] value = 2 -> [kind |-> "ok", variant |-> "IN"]
      [] value = 3 -> [kind |-> "ok", variant |-> "AT"]
      [] value = 4 -> [kind |-> "ok", variant |-> "SP"]
      [] OTHER     -> [kind |-> "err",
                       msg  |-> <<"illegal level type: ">> \o Dec(Small(value))]

Bytes == 0..255

InitLevel ==
    /\ CacheIdle /\ PosIdle /\ PtrIdle /\ FileIdle
    /\ lvIn \in Bytes
    /\ lvOut = NoPos

\* serde hands the byte to try_from
LevelDecode ==
    /\ lvOut = NoPos
    /\ lvOut' = LevelTypeTryFrom(lvIn)
    /\ UNCHANGED <<cacheVars, fileVars, posVars, ptrVars, lvIn>>

NextLevel == LevelDecode

SpecLevel == InitLevel /\ [][NextLevel]_vars

-----------------------------------------------------------------------------
(* Ptr<T> as a value: construction, cloning, serde                         *)

PtrIdSpan == 1      \* the identifiers -PtrIdSpan..PtrIdSpan, besides the extremes

I32Max == 2147483647

I32Min == -I32Max - 1

PtrIds == {I32Min, I32Max} \cup (-PtrIdSpan..PtrIdSpan)

\* a clone that does not carry the identifier over
PtrCloneDefault(p) == PtrNew(p.ty, 0)

\* <Ptr<T> as Clone>::clone: Self::new(self.id)
PtrClone(p) == PtrNew(p.ty, p.id)

\* <Ptr<T> as From<i32>>::from: Self::new(value)
PtrFrom(T, value) == PtrNew(T, value)

\* a serializer that wraps the identifier in a structure
PtrSerializeAsStruct(p) == [tag |-> "map", v |-> p.id]

\* <Ptr<T> as Serialize>::serialize: serializer.serialize_i32(self.id)
PtrSerialize(p) == [tag |-> "i32", v |-> p.id]

\* <Ptr<T> as Deserialize>::deserialize: i32::deserialize(..).map(Self::new);
\* anything but an integer is an error
PtrDeserialize(T, tok) ==
    IF tok.tag = "i32"
    THEN [kind |-> "ok", ptr |-> PtrNew(T, tok.v)]
    ELSE [kind |-> "err", ptr |-> NoPtr]

\* the serde tokens a deserializer may meet
Tokens ==
    {[tag |-> "i32", v |-> i] : i \in PtrIds}
        \cup {[tag |-> "str", v |-> 0], [tag |-> "map", v |-> 0]}

InitPtr ==
    /\ CacheIdle /\ PosIdle /\ LevelIdle /\ FileIdle
    /\ \E T \in Types, id \in PtrIds : pA = PtrNew(T, id)
    /\ pB = NoPtr
    /\ wire = [tag |-> "none", v |-> 0]
    /\ pStep = "new"

\* pA = id.into()
PtrConvert(T, id) ==
    /\ pA' = PtrFrom(T, id)
    /\ pB' = NoPtr
    /\ pStep' = "from"
    /\ UNCHANGED <<cacheVars, fileVars, posVars, lvVars, wire>>

\* pB = Ptr::new(id), of the type of pA
PtrSecond(id) ==
    /\ pB' = PtrNew(pA.ty, id)
    /\ pStep' = "second"
    /\ UNCHANGED <<cacheVars, fileVars, posVars, lvVars, pA, wire>>

\* pB = pA.clone()
PtrCloned ==
    /\ pB' = PtrClone(pA)
    /\ pStep' = "clone"
    /\ UNCHANGED <<cacheVars, fileVars, posVars, lvVars, pA, wire>>

\* pA is serialized
PtrWrite ==
    /\ wire' = PtrSerialize(pA)
    /\ pStep' = "ser"
    /\ UNCHANGED <<cacheVars, fileVars, posVars, lvVars, pA, pB>>

\* a token arrives from outside
PtrReceive(tok) ==
    /\ wire' = tok
    /\ pStep' = "wire"
    /\ UNCHANGED <<cacheVars, fileVars, posVars, lvVars, pA, pB>>

\* pB is deserialized, as a Ptr of the type of pA, from the token
PtrRead ==
    /\ pStep \in {"ser", "wire"}
    /\ pB' = PtrDeserialize(pA.ty, wire).ptr
    /\ pStep' = CASE PtrDeserialize(pA.ty, wire).kind = "err" -> "de_err"
                  [] pStep = "ser" -> "ser_de"
                  [] OTHER -> "de"
    /\ UNCHANGED <<cacheVars, fileVars, posVars, lvVars, pA, wire>>

NextPtr ==
    \/ \E T \in Types, id \in PtrIds : PtrConvert(T, id)
    \/ \E id \in PtrIds : PtrSecond(id)
    \/ PtrCloned
    \/ PtrWrite
    \/ \E tok \in Tokens : PtrReceive(tok)
    \/ PtrRead

SpecPtr == InitPtr /\ [][NextPtr]_vars

-----------------------------------------------------------------------------
(* PZFile: a URL, and the requests its methods hand to CACHE_CLIENT        *)

MaxTail == 2        \* the URLs end in any text over TailAlphabet up to this length

\* "https://phira.mivik.cn/"
HostPrefix ==
    <<"h", "t", "t", "p", "s", ":", "/", "/", "p", "h", "i", "r", "a", ".", "m", "i", "v", "i", "k", ".", "c", "n", "/">>

\* "?imageView/0/w/", "/h/"
SuffixW == <<"?", "i", "m", "a", "g", "e", "V", "i", "e", "w", "/", "0", "/", "w", "/">>
SuffixH == <<"/", "h", "/">>

\* a test that finds the pattern anywhere in the text
ContainsText(s, pat) ==
    \E k \in 0..(Len(s) - Len(pat)) : \A i \in 1..Len(pat) : s[k + i] = pat[i]

\* str::starts_with(pat)
StartsWith(s, pat) ==
    /\ Len(s) >= Len(pat)
    /\ \A i \in 1..Len(pat) : s[i] = pat[i]

\* format!("{}?imageView/0/w/{THUMBNAIL_WIDTH}/h/{THUMBNAIL_HEIGHT}", self.url)
ThumbnailUrl(url, w, h) ==
    url \o SuffixW \o Dec(Small(w)) \o SuffixH \o Dec(Small(h))

\* CACHE_CLIENT.get(url)
Get(url) == [method |-> "GET", url |-> url]

\* PZFile::fetch and PZFile::fetch_stream: CACHE_CLIENT.get(&self.url)
FileRequest(url) == Get(url)

\* PZFile::load_image: self.fetch()
LoadImageRequest(url) == FileRequest(url)

\* PZFile::load_thumbnail: load_image() of the PZFile with the derived URL
\* under the host prefix, of self otherwise
LoadThumbnailRequest(url, w, h) ==
    IF StartsWith(url, HostPrefix)
    THEN LoadImageRequest(ThumbnailUrl(url, w, h))
    ELSE LoadImageRequest(url)

\* the sizes a build may have for its thumbnails
ThumbnailSizes == {1, 200, 347}

\* how the URLs start: with the host prefix, with texts that are nearly the
\* prefix, or with the prefix further in
UrlHeads ==
    {<<>>,
     HostPrefix,
     SubSeq(HostPrefix, 1, Len(HostPrefix) - 1),
     [HostPrefix EXCEPT ![1] = "H"],
     SubSeq(HostPrefix, 1, 4) \o SubSeq(HostPrefix, 6, Len(HostPrefix)),
     SubSeq(HostPrefix, 1, Len(HostPrefix) - 1) \o <<".", "x", "/">>,
     <<"x">> \o HostPrefix,
     <<"/", "/">> \o SubSeq(HostPrefix, 9, Len(HostPrefix))}

TailAlphabet == {"a", "/", "?"}

UrlTails == UNION {[1..n -> TailAlphabet] : n \in 0..MaxTail}

Urls == {h \o t : h \in UrlHeads, t \in UrlTails}

InitFile ==
    /\ CacheIdle /\ PosIdle /\ LevelIdle /\ PtrIdle
    /\ fileUrl \in Urls
    /\ thumbW \in ThumbnailSizes
    /\ thumbH \in ThumbnailSizes
    /\ fOp = "none"
    /\ requested = NoRequest

\* file.fetch()
FileFetch ==
    /\ fOp' = "fetch"
    /\ requested' = FileRequest(fileUrl)
    /\ UNCHANGED <<cacheVars, posVars, lvVars, ptrVars, fileUrl, thumbW, thumbH>>

\* file.fetch_stream()
FileFetchStream ==
    /\ fOp' = "fetch_stream"
    /\ requested' = FileRequest(fileUrl)
    /\ UNCHANGED <<cacheVars, posVars, lvVars, ptrVars, fileUrl, thumbW, thumbH>>

\* file.load_image()
FileLoadImage ==
    /\ fOp' = "load_image"
    /\ requested' = LoadImageRequest(fileUrl)
    /\ UNCHANGED <<cacheVars, posVars, lvVars, ptrVars, fileUrl, thumbW, thumbH>>

\* file.load_thumbnail()
FileLoadThumbnail ==
    /\ fOp' = "load_thumbnail"
    /\ requested' = LoadThumbnailRequest(fileUrl, thumbW, thumbH)
    /\ UNCHANGED <<cacheVars, posVars, lvVars, ptrVars, fileUrl, thumbW, thumbH>>

NextFile ==
    \/ FileFetch
    \/ FileFetchStream
    \/ FileLoadImage
    \/ FileLoadThumbnail

SpecFile == InitFile /\ [][NextFile]_vars

-----------------------------------------------------------------------------
(* Claims about the registry, the caches and Ptr::load                     *)

HoldsCacheLock(t) == \E h \in 1..Len(heap) : heap[h].owner = t

\* C1: a task that is about to invoke the network fetch, or is suspended
\* in it, holds neither the registry lock nor any cache lock.
C1_NoLockAcrossFetch ==
    \A t \in Tasks :
        pc[t] \in {"fetch", "net"} => registryOwner # t /\ ~HoldsCacheLock(t)

\* a load() that missed is suspended in the network while another task is
\* inside the critical section of the same cache
C1_Witness ==
    \E t, u \in Tasks :
        /\ t # u
        /\ op[t] = "load" /\ pc[t] = "net" /\ seen[t] = 0
        /\ pc[u] = "check"
        /\ heap[map[u]].owner = u
        /\ map[u] = CACHES[QUERY_PATH(ptr[t].ty)]

C2_AtMostOnePerKey ==
    /\ \A h1, h2 \in 1..Len(heap) :
          QUERY_PATH(heap[h1].ty) = QUERY_PATH(heap[h2].ty) => h1 = h2
    /\ \A t \in Tasks : map[t] # 0 => map[t] = CACHES[QUERY_PATH(ptr[t].ty)]

C2_EntryKept == \A k \in Keys : CACHES[k] # 0 => CACHES'[k] = CACHES[k]

\* C2: at most one cache is ever created per partition key, every handle a
\* task got from obtain_map_cache is the registry's entry for its key, and
\* a registry entry, once made, is never removed or replaced.
C2_CreatedOncePerKey == [](C2_AtMostOnePerKey) /\ [][C2_EntryKept]_vars

\* two tasks of different types with the same partition key hold the same
\* handle at once, the first having created the cache
C2_Witness ==
    \E t, u \in Tasks :
        /\ t # u
        /\ map[t] # 0 /\ map[t] = map[u]
        /\ ptr[t].ty # ptr[u].ty

\* C3: a load() that found the identifier in the cache returns the cached
\* instance and never invokes Client::fetch; a load() that did not find it
\* invokes Client::fetch exactly once and returns what that returned.
C3_CacheThenNetwork ==
    \A t \in Tasks :
        op[t] = "load" =>
            /\ fetchCalls[t] <= 1
            /\ seen[t] = NotLooked => fetchCalls[t] = 0
            /\ seen[t] > 0 =>
                  /\ pc[t] \in {"done", "idle"}
                  /\ fetchCalls[t] = 0
                  /\ result[t] = Ok(seen[t])
            /\ (seen[t] = 0 /\ pc[t] \in {"done", "idle"}) =>
                  /\ fetchCalls[t] = 1
                  /\ fetched[t].kind \in {"ok", "err"}
                  /\ result[t] = fetched[t]

\* one load() has returned the cached instance, another one the instance
\* it fetched after a miss
C3_Witness ==
    \E t, u \in Tasks :
        /\ op[t] = "load" /\ pc[t] = "done" /\ seen[t] > 0
        /\ result[t] = Ok(seen[t])
        /\ op[u] = "load" /\ pc[u] = "done" /\ seen[u] = 0
        /\ result[u].kind = "ok"

ChartLru == IF CACHES["chart"] = 0 THEN <<>> ELSE heap[CACHES["chart"]].lru

Pos(log, id) == CHOOSE i \in 1..Len(log) : log[i] = id

\* C4: a cache never holds more than 64 entries; 64 distinct identifiers
\* evict nothing and the 65th evicts exactly one entry; an evicted entry
\* was accessed (put, or found by load()) before every entry still held.
C4_EvictsLeastRecent ==
    /\ Len(ChartLru) <= Capacity
    /\ Inserted <= Capacity => evicted["chart"].count = 0
    /\ Inserted = Capacity + 1 =>
          /\ evicted["chart"].count = 1
          /\ Cardinality(evicted["chart"].ids) = 1
          /\ Len(ChartLru) = Capacity
    /\ \A e \in evicted["chart"].ids, p \in IdsOf(ChartLru) :
          Pos(accessLog["chart"], e) < Pos(accessLog["chart"], p)

\* the 65th identifier has been put, and the entry evicted is not the first
\* one put, which a load() hit had made the most recently used
C4_Witness ==
    /\ Inserted = Capacity + 1
    /\ pc[1] = "done"
    /\ evicted["chart"].count = 1
    /\ 1 \notin evicted["chart"].ids
    /\ 1 \in IdsOf(ChartLru)

\* C5: when a load() that missed has returned the instance of the only
\* fetch made so far, a lookup of its identifier in its type's cache hits
\* and yields that instance.
C5_LoadPopulatesCache ==
    \A t \in Tasks :
        ( /\ op[t] = "load" /\ pc[t] = "done"
          /\ seen[t] = 0 /\ result[t].kind = "ok"
          /\ netCalls = 1 ) =>
            /\ CACHES[QUERY_PATH(ptr[t].ty)] # 0
            /\ LET g == LruGet(heap[CACHES[QUERY_PATH(ptr[t].ty)]].lru, ptr[t].id)
               IN  g.found /\ g.value = result[t].inst

\* a load() on a cold cache has returned the one instance fetched
C5_Witness ==
    \E t \in Tasks :
        /\ op[t] = "load" /\ pc[t] = "done"
        /\ seen[t] = 0 /\ result[t].kind = "ok"
        /\ netCalls = 1
        /\ Len(heap[CACHES[QUERY_PATH(ptr[t].ty)]].lru) = 1

\* what the cache of a type holds for an id: the instance, 0 if absent
Cached(T, id) ==
    IF CACHES[QUERY_PATH(T)] = 0 THEN 0
    ELSE Peek(heap[CACHES[QUERY_PATH(T)]].lru, id)

C12_FetchTouchesNoCache ==
    \A t \in Tasks :
        op[t] = "fetch" =>
            /\ map[t] = 0 /\ seen[t] = NotLooked
            /\ registryOwner # t /\ ~HoldsCacheLock(t)
            /\ pc[t] = "fetch" => ENABLED FetchCall(t)
            /\ pc[t] \in {"net", "fetched", "done", "panicked"} => fetchCalls[t] = 1

\* the steps of Ptr::fetch itself: its call, its call of Client::fetch, its
\* return; what Client::fetch does in between is not among them
C12_OwnStepsKeepCaches ==
    \A t \in Tasks :
        ( /\ op'[t] = "fetch" /\ pc'[t] # pc[t]
          /\ pc[t] \in {"idle", "fetch", "fetched"} ) =>
            /\ CACHES' = CACHES /\ heap' = heap /\ accessLog' = accessLog
            /\ pc[t] = "fetch" => pc'[t] = "net" /\ netCalls' = netCalls + 1

\* C12: Ptr::fetch() invokes Client::fetch whatever the cache holds, exactly
\* once, and its own steps take no lock and neither read nor change the
\* registry or a cache.
C12_FetchDelegates == [](C12_FetchTouchesNoCache) /\ [][C12_OwnStepsKeepCaches]_vars

\* a fetch() is about to call Client::fetch for an identifier that the
\* cache of its type holds
C12_Witness ==
    \E t \in Tasks :
        /\ op[t] = "fetch" /\ pc[t] = "fetch"
        /\ Cached(ptr[t].ty, ptr[t].id) # 0

\* the entries of the cache under a key, most recently used first
Contents(k) == IF CACHES[k] = 0 THEN <<>> ELSE heap[CACHES[k]].lru

C13_FailureReturned ==
    \A t \in Tasks :
        /\ fetchCalls[t] <= 1
        /\ fetched[t].kind = "err" => fetchCalls[t] = 1
        /\ pc[t] = "done" =>
              (fetched[t].kind = "err" <=> result[t].kind = "err")
        /\ (pc[t] = "done" /\ fetched[t].kind = "err") => result[t] = fetched[t]

\* every step of a call but the put of a successful Client::fetch and the
\* get of a hit leaves the entries and their order, under every key, alone
C13_FailureKeepsCaches ==
    \A t \in Tasks :
        ( /\ pc'[t] # pc[t]
          /\ ~(pc[t] = "net" /\ fetched'[t].kind = "ok")
          /\ ~(pc[t] = "check" /\ pc'[t] = "done") ) =>
            \A k \in Keys : Contents(k)' = Contents(k)

\* C13: a failure of Client::fetch is what fetch(), and a load() that
\* missed, return; no call invokes Client::fetch more than once; and no step
\* of a failing call changes what a cache holds.
C13_FailurePropagates == [](C13_FailureReturned) /\ [][C13_FailureKeepsCaches]_vars

\* a load() that missed and a fetch() have both returned the failure of
\* their own call of Client::fetch, and the cache of the load() is empty
C13_Witness ==
    \E t, u \in Tasks :
        /\ op[t] = "load" /\ pc[t] = "done" /\ seen[t] = 0
        /\ op[u] = "fetch" /\ pc[u] = "done"
        /\ result[t].kind = "err" /\ result[u].kind = "err"
        /\ result[t] # result[u]
        /\ CACHES[QUERY_PATH(ptr[t].ty)] # 0
        /\ Contents(QUERY_PATH(ptr[t].ty)) = <<>>

\* the cache that obtain_map_cache handed the load() of t is of another type
Mismatch(t) ==
    /\ op[t] = "load"
    /\ pc[t] \notin {"idle", "obtain", "entry"}
    /\ CACHES[QUERY_PATH(ptr[t].ty)] # 0
    /\ heap[CACHES[QUERY_PATH(ptr[t].ty)]].ty # ptr[t].ty

\* a load() that meets a cache of another type ends at the downcast
C14_FatalAtDowncast ==
    \A t \in Tasks :
        Mismatch(t) =>
            /\ pc[t] \in {"lock", "check", "panicked"}
            /\ fetchCalls[t] = 0 /\ fetched[t] = NoResult
            /\ pc[t] # "panicked" => result[t] = NoResult
            /\ pc[t] = "panicked" => result[t] = Panic("unreachable!()")

\* C14: a load() that meets a cache of another type returns neither a value
\* nor an error and never calls Client::fetch: it panics, at the downcast
\* or, if the mutex of the cache is poisoned, at lock().unwrap() before it.
C14_FatalNoFetch ==
    \A t \in Tasks :
        Mismatch(t) =>
            /\ pc[t] \in {"lock", "check", "panicked"}
            /\ fetchCalls[t] = 0 /\ fetched[t] = NoResult
            /\ pc[t] # "panicked" => result[t] = NoResult
            /\ pc[t] = "panicked" =>
                  \/ result[t] = Panic("unreachable!()")
                  \/ /\ result[t] = Panic("lock().unwrap()")
                     /\ heap[CACHES[QUERY_PATH(ptr[t].ty)]].poisoned

\* a load() of Ptr<Mirror> has panicked at lock().unwrap(): the cache is
\* one of Chart entries, and its mutex is poisoned
C14_Witness ==
    \E t \in Tasks :
        /\ Mismatch(t) /\ pc[t] = "panicked"
        /\ ptr[t].ty = "Mirror"
        /\ result[t] = Panic("lock().unwrap()")

\* a load() of Ptr<Mirror> has panicked at the downcast
C14_WitnessDowncast ==
    \E t \in Tasks :
        /\ Mismatch(t) /\ pc[t] = "panicked"
        /\ ptr[t].ty = "Mirror"
        /\ result[t] = Panic("unreachable!()")

\* C15: a load() that does not find its identifier goes on to its own call
\* of Client::fetch whatever the other tasks are doing: the miss and the
\* call are never held back by a fetch in flight, every load() that missed
\* has made a call of its own, and there are as many calls as callers.
C15_NoCoalescing ==
    /\ netCalls = Cardinality({t \in Tasks : fetchCalls[t] = 1})
    /\ \A t \in Tasks :
          op[t] = "load" =>
              /\ ( /\ pc[t] = "check" /\ heap[map[t]].ty = ptr[t].ty
                   /\ Peek(heap[map[t]].lru, ptr[t].id) = 0 ) => ENABLED GetMiss(t)
              /\ pc[t] = "fetch" => ENABLED FetchCall(t)
              /\ (seen[t] = 0 /\ pc[t] \in {"net", "fetched", "done"}) =>
                    /\ fetchCalls[t] = 1
                    /\ \A u \in Tasks \ {t} :
                          fetchCalls[u] = 1 => fetched[u].inst # fetched[t].inst

\* every task has called load() on the same Ptr<Chart>, has missed, and is
\* suspended in a Client::fetch of its own
C15_Witness ==
    /\ \A t \in Tasks :
          /\ op[t] = "load" /\ ptr[t] = PtrNew("Chart", 1)
          /\ seen[t] = 0 /\ pc[t] = "net"
    /\ netCalls = NumTasks

\* C16: the registry lock is held only for the lookup-or-insert step of
\* obtain_map_cache: no task holds it together with a cache lock, its
\* holder can always finish the step and release it, a free registry lock
\* can be taken whoever is inside a cache, and the holder of a cache lock
\* can always go on, so that no task waits in a cycle.
C16_RegistryLockAlone ==
    /\ \A t \in Tasks :
          /\ ~(registryOwner = t /\ HoldsCacheLock(t))
          /\ registryOwner = t => pc[t] = "entry" /\ ENABLED ObtainEntry(t)
          /\ (pc[t] = "obtain" /\ registryOwner = 0) => ENABLED ObtainLock(t)
          /\ HoldsCacheLock(t) =>
                /\ pc[t] = "check"
                /\ ENABLED (DowncastFail(t) \/ GetHit(t) \/ GetMiss(t))
    /\ registryOwner \in Tasks \cup {0}
    /\ \A h \in 1..Len(heap) : heap[h].owner \in Tasks \cup {0}

\* one task is inside the critical section of a cache while another one
\* holds the registry lock, about to look up the same key
C16_Witness ==
    \E t, u \in Tasks :
        /\ t # u
        /\ pc[t] = "check" /\ heap[map[t]].owner = t
        /\ registryOwner = u /\ pc[u] = "entry"
        /\ QUERY_PATH(ptr[u].ty) = QUERY_PATH(ptr[t].ty)

C17_BoundedDistinct ==
    \A k \in Keys :
        /\ Len(Contents(k)) <= Capacity
        /\ Cardinality(IdsOf(Contents(k))) = Len(Contents(k))

\* a step of a call on a Ptr<T> changes the cache of no other key
C17_OtherCachesKept ==
    \A t \in Tasks :
        pc'[t] # pc[t] =>
            \A k \in Keys \ {QUERY_PATH(ptr'[t].ty)} : Contents(k)' = Contents(k)

\* C17: every cache holds at most 64 entries, with pairwise distinct
\* identifiers, and a step of a call on one type changes neither the
\* entries nor the recency order of the cache of any other key.
C17_BoundedIndependent == [](C17_BoundedDistinct) /\ [][C17_OtherCachesKept]_vars

\* the cache of Chart has evicted an entry and holds 64, and the cache of
\* User holds two entries, the one fetched first being the more recently
\* used after a hit
C17_Witness ==
    /\ evicted["chart"].count = 1
    /\ Len(Contents("chart")) = Capacity
    /\ Len(Contents("user")) = 2
    /\ Contents("user")[1].inst < Contents("user")[2].inst

C19_LocksReleased ==
    \A t \in Tasks :
        pc[t] \in {"fetch", "net", "fetched", "done"} =>
            /\ registryOwner # t /\ ~HoldsCacheLock(t) /\ map[t] = 0
            /\ pc[t] = "done" =>
                  \/ seen[t] > 0 /\ result[t] = Ok(seen[t])
                  \/ seen[t] = 0 /\ result[t] = fetched[t]
                        /\ result[t].kind \in {"ok", "err"}

C19_Returns == \A t \in Tasks : (pc[t] = "obtain") ~> (pc[t] = "done")

\* C19: under a fair scheduler and a Client::fetch that returns, every
\* load() returns, the cached instance after a hit and the outcome of
\* fetch() after a miss, and holds no lock and no handle from the fetch on.
C19_LoadReturns == [](C19_LocksReleased) /\ C19_Returns

\* a load() waits for the mutex of a cache while another load() is inside
\* its critical section
C19_Witness ==
    \E t, u \in Tasks :
        /\ t # u
        /\ pc[t] = "lock" /\ pc[u] = "check"
        /\ heap[map[t]].owner = u
        /\ registryOwner = 0

-----------------------------------------------------------------------------
(* Claims about the value types                                            *)

\* the text split at every ':'
RECURSIVE SplitAll(_)
SplitAll(s) ==
    IF FirstColon(s) = 0 THEN <<s>>
    ELSE <<SubSeq(s, 1, FirstColon(s) - 1)>>
         \o SplitAll(SubSeq(s, FirstColon(s) + 1, Len(s)))

\* three fields, each an unsigned integer
ValidTriple(s) ==
    /\ Len(SplitAll(s)) = 3
    /\ \A i \in 1..3 : ParseU32(SplitAll(s)[i]).ok

\* (f0 * 60 + f1) * 60 + f2 = h * 3600 + m * 60 + s, as a number
Total(s) ==
    MulAdd(MulAdd(ParseU32(SplitAll(s)[1]).v, 60, ParseU32(SplitAll(s)[2]).v),
           60, ParseU32(SplitAll(s)[3]).v)

\* "00:MM:SS" of a number of seconds
MinutesSeconds(x) ==
    <<"0", "0", ":">> \o Pad2(Dec(DivMod(x, 60).q)) \o <<":">>
        \o Pad2(Dec(Small(DivMod(x, 60).r)))

\* C6: for a valid h:m:s triple whose total of seconds fits a u32, the text
\* re-encoded from the decoded position is "00:MM:SS", MM the total divided
\* by 60 and SS the remainder, each zero-padded to two digits.
C6_ReencodesMinutesSeconds ==
    (posText # NoText /\ ValidTriple(posIn) /\ Total(posIn).c = 0) =>
        posText = MinutesSeconds(Total(posIn))

\* C7: decoding succeeds exactly for three fields that parse as unsigned
\* integers and then yields (f0 * 60 + f1) * 60 + f2 seconds; every other
\* text is refused with "illegal position".
C7_DecodesExactly ==
    posOut # NoPos =>
        IF ValidTriple(posIn)
        THEN posOut = [kind |-> "ok", seconds |-> Total(posIn)]
        ELSE posOut = [kind |-> "err", msg |-> "illegal position"]

\* C18: the text encoded from a MusicPosition decodes, and to a position
\* of the same seconds, for every number of seconds and in every build.
C18_EncodeDecodeIdentity ==
    /\ posBack # NoPos => posBack = [kind |-> "ok", seconds |-> posOut.seconds]
    /\ (posIn = NoText /\ posText # NoText) =>
          /\ Len(SplitAll(posText)) = 3
          /\ ParseU32(SplitAll(posText)[3]).v = posOut.seconds

\* the position of 4294967295 seconds has been encoded and decoded again
\* by a build with overflow checks
C18_Witness ==
    /\ overflowChecks
    /\ posBack # NoPos
    /\ posOut = [kind |-> "ok", seconds |-> U32Max]
    /\ posBack.seconds = U32Max

\* C20: of three fields that each parse as a u32, decoding yields the
\* number (f0 * 60 + f1) * 60 + f2 if 32 bits hold it, and refuses the text
\* with "illegal position" if they do not; it never yields that number
\* modulo 2^32.
C20_NeverWraps ==
    (posOut # NoPos /\ ValidTriple(posIn)) =>
        IF Total(posIn).c = 0
        THEN posOut = [kind |-> "ok", seconds |-> Total(posIn)]
        ELSE posOut = [kind |-> "err", msg |-> "illegal position"]

\* a triple whose seconds 32 bits do not hold has been decoded to a value
C20_Wrapped ==
    /\ ValidTriple(posIn) /\ Total(posIn).c # 0
    /\ posOut # NoPos /\ posOut.kind = "ok"
    /\ posOut.seconds = Wrap(Total(posIn))

\* a triple whose seconds 32 bits do not hold has made the decoder panic
C20_Panicked ==
    /\ ValidTriple(posIn) /\ Total(posIn).c # 0
    /\ posOut = [kind |-> "panic"]

LevelNames == <<"EZ", "HD", "IN", "AT", "SP">>

ByteDigits(b) ==
    IF b < 10 THEN <<Digits[b + 1]>>
    ELSE IF b < 100 THEN <<Digits[(b \div 10) + 1], Digits[(b % 10) + 1]>>
    ELSE <<Digits[(b \div 100) + 1], Digits[((b \div 10) % 10) + 1],
           Digits[(b % 10) + 1]>>

\* C8: the bytes 0..4 decode to EZ, HD, IN, AT, SP in this order, and every
\* byte from 5 to 255 is refused with "illegal level type: " followed by
\* the byte in decimal.
C8_LevelTypeDecoding ==
    lvOut # NoPos =>
        /\ lvIn <= 4 => lvOut = [kind |-> "ok", variant |-> LevelNames[lvIn + 1]]
        /\ lvIn >= 5 =>
              lvOut = [kind |-> "err",
                       msg  |-> <<"illegal level type: ">> \o ByteDigits(lvIn)]
        /\ \A i, j \in 1..5 : LevelNames[i] = LevelNames[j] => i = j

\* the first byte that is no level type has been refused
C8_Witness == lvIn = 5 /\ lvOut # NoPos /\ lvOut.kind = "err"

\* C9: a Ptr is serialized as the bare i32 of its identifier; read back it
\* is a Ptr with that identifier; and a Ptr read from a bare integer is
\* serialized as that integer again.
C9_BareInteger ==
    /\ pStep = "ser" => wire = [tag |-> "i32", v |-> pA.id]
    /\ pStep = "ser_de" => pB = [ty |-> pA.ty, id |-> pA.id]
    /\ pStep = "de" =>
          /\ wire.tag = "i32"
          /\ pB = [ty |-> pA.ty, id |-> wire.v]
          /\ PtrSerialize(pB) = wire

\* the Ptr with the least i32 has been serialized and read back
C9_Witness == pStep = "ser_de" /\ pA.id = I32Min /\ pB.id = I32Min

C10_EqualByIdentifier ==
    pStep \in {"second", "clone"} =>
        /\ (pB = pA) <=> (pB.id = pA.id)
        /\ pStep = "clone" => pB.id = pA.id

C10_OriginalKept == pStep' = "clone" => pA' = pA

-----------------------------------------------------------------------------
(* Claims about PZFile                                                     *)

\* the numeral of a thumbnail size
SizeDigits(n) ==
    IF n < 10 THEN <<Digits[n + 1]>>
    ELSE IF n < 100 THEN <<Digits[(n \div 10) + 1], Digits[(n % 10) + 1]>>
    ELSE <<Digits[(n \div 100) + 1], Digits[((n \div 10) % 10) + 1],
           Digits[(n % 10) + 1]>>

UnderHost(url) ==
    Len(url) >= Len(HostPrefix) /\ SubSeq(url, 1, Len(HostPrefix)) = HostPrefix

\* C11: load_thumbnail() of a URL that starts with "https://phira.mivik.cn/"
\* requests the URL with "?imageView/0/w/<width>/h/<height>" appended; of
\* any other URL it requests the URL itself, as load_image() does.
C11_ThumbnailRequest ==
    /\ fOp = "load_thumbnail" =>
          requested =
              [method |-> "GET",
               url    |-> IF UnderHost(fileUrl)
                          THEN fileUrl \o SuffixW \o SizeDigits(thumbW)
                                   \o SuffixH \o SizeDigits(thumbH)
                          ELSE fileUrl]
    /\ fOp = "load_image" => requested = [method |-> "GET", url |-> fileUrl]

\* a thumbnail has been requested of a URL that holds the host prefix, but
\* not at its start
C11_WitnessOtherHost ==
    /\ fOp = "load_thumbnail"
    /\ ContainsText(fileUrl, HostPrefix)
    /\ ~UnderHost(fileUrl)
    /\ requested.url = fileUrl

\* a thumbnail has been requested of a URL under the host prefix
C11_Witness ==
    /\ fOp = "load_thumbnail"
    /\ UnderHost(fileUrl)
    /\ Len(requested.url) > Len(fileUrl)

====
